---- MODULE Spec2Model ----
(***************************************************************************)
(* Model of the predictable-IP allocation of the designate operator:        *)
(* IPSetManager (AllocateIP / ReleaseIP over one ConfigMap per pool), the   *)
(* PodAnnotationReconciler that annotates the Pods of the fleet with the    *)
(* allocated address, and the API-server object store they talk to.         *)
(*                                                                          *)
(* Every API call (Get, Create, Update) is one atomic step; everything a    *)
(* function does between two API calls is folded into the step of the call  *)
(* that precedes it.  A worker is one goroutine running one IPSetManager    *)
(* call or one Reconcile at a time.                                         *)
(***************************************************************************)
EXTENDS Integers, Sequences, FiniteSets, TLC

\* ------------------------------------------------------------------------
\* Bounds
\* ------------------------------------------------------------------------
\* pod indexes handed to AllocateIP are 0..MaxPodIndex
MaxPodIndex == 2
\* number of addresses of the range [RangeStart, RangeEnd)
RangeSize == 2
\* number of successful calls the sequential specification records
MaxCalls == 3
\* pod indexes of the concurrent specification are 0..MaxRacePodIndex
MaxRacePodIndex == 1
\* number of Reconcile calls the reconciler specifications record
MaxReconciles == 2
\* the other writers of Pods stop when the Pods were written this often
MaxPodWrites == 3
\* the same, where one Pod is written during the annotation write
MaxRetryWrites == 6
\* the same, where the sibling ConfigMaps hold addresses from the start
MaxSiblingWrites == 3
\* writes of Pods and Reconciles of the redelivery specification
MaxRedeliverWrites == 4
MaxRedeliveries == 4
\* Pod names given to isDesignatePod end in up to MaxSuffixLen characters
MaxSuffixLen == 3
\* ranges given to the predictable-IP functions hold up to MaxRangeSize
\* addresses, pod indexes go up to MaxProbeIndex, replicas to MaxReplicas
MaxRangeSize == 2
MaxProbeIndex == 3
MaxReplicas == 2
\* writes of the Pod in the specification with fairness
MaxLiveWrites == 3

\* ------------------------------------------------------------------------
\* Names, addresses
\* ------------------------------------------------------------------------
\* the two ConfigMaps AllocateIP consults for addresses to avoid
BindPredIPConfigMap == "designate-bind-ip-map"
MdnsPredIPConfigMap == "designate-mdns-ip-map"
\* parentDesignate.Spec.DesignateNetworkAttachment and the interface name
NetworkName == "net"
InterfaceName == "designate"
\* createIPSetAnnotations: fmt.Sprintf("designate-%s", networkName)
IPSetName == "designate-" \o NetworkName

Pools == {BindPredIPConfigMap, MdnsPredIPConfigMap, IPSetName}

\* NADIpam.RangeStart / RangeEnd: the host part of the first address and of
\* the address one past the last
RangeStart == 1
RangeEnd == RangeStart + RangeSize

\* netip.Addr.String(): the canonical text of an address
AddrString(a) == "10.0.0." \o ToString(a)

\* fmt.Sprintf("pod_%d", podIndex)
PodKey(podIndex) == "pod_" \o ToString(podIndex)

PodIndexes == 0 .. MaxPodIndex
\* the concurrent specification: two holders, the pool of the reconciler
\* and one of the pools it avoids
RacePodIndexes == 0 .. MaxRacePodIndex
RacePools == {IPSetName, BindPredIPConfigMap}
\* addresses a caller can ask ReleaseIP to release
ReleaseArgs == {AddrString(a) : a \in RangeStart .. RangeEnd - 1}

\* ------------------------------------------------------------------------
\* map[string]string
\* ------------------------------------------------------------------------
EmptyMap == [k \in {} |-> ""]
MapPut(m, k, v) == [x \in (DOMAIN m) \cup {k} |-> IF x = k THEN v ELSE m[x]]
MapDelete(m, k) == [x \in (DOMAIN m) \ {k} |-> m[x]]
Values(m) == {m[k] : k \in DOMAIN m}

\* ------------------------------------------------------------------------
\* Strings the reconciler takes apart: sequences of one-character strings
\* ------------------------------------------------------------------------
Digits == {"0", "1", "2", "3", "4", "5", "6", "7", "8", "9"}
DigitValue(c) == CHOOSE d \in 0 .. 9 : ToString(d) = c

\* strings.HasPrefix
HasPrefix(s, prefix) ==
    Len(s) >= Len(prefix) /\ SubSeq(s, 1, Len(prefix)) = prefix

\* strings.Contains
Contains(s, substr) ==
    \E i \in 1 .. Len(s) - Len(substr) + 1 :
        SubSeq(s, i, i + Len(substr) - 1) = substr

\* strings.LastIndex(s, c) counted from 1; 0 stands for Go's -1
LastIndex(s, c) ==
    LET at == {i \in 1 .. Len(s) : s[i] = c}
    IN  IF at = {} THEN 0 ELSE CHOOSE i \in at : \A j \in at : j <= i

\* the value of a sequence of decimal digits
RECURSIVE DecimalValue(_)
DecimalValue(ds) ==
    IF ds = <<>> THEN 0
    ELSE 10 * DecimalValue(SubSeq(ds, 1, Len(ds) - 1)) + DigitValue(ds[Len(ds)])

\* strconv.Atoi: an optional sign, then one or more decimal digits
Atoi(s) ==
    LET signed == s # <<>> /\ s[1] \in {"+", "-"}
        ds     == IF signed THEN Tail(s) ELSE s
    IN  IF ds = <<>> \/ \E i \in 1 .. Len(ds) : ds[i] \notin Digits
        THEN [err |-> "syntax", n |-> 0]
        ELSE [err |-> "nil",
              n |-> IF signed /\ s[1] = "-" THEN 0 - DecimalValue(ds)
                    ELSE DecimalValue(ds)]

\* ExtractPodIndexFromName: the text after the last dash, parsed by Atoi
ExtractPodIndexFromName(podName) ==
    LET lastDashIndex == LastIndex(podName, "-")
    IN  IF lastDashIndex = 0 THEN [err |-> "noOrdinal", n |-> 0]
        ELSE Atoi(SubSeq(podName, lastDashIndex + 1, Len(podName)))

\* ------------------------------------------------------------------------
\* Pods
\* ------------------------------------------------------------------------
Designate == <<"d", "e", "s", "i", "g", "n", "a", "t", "e">>
DesignateBackendbind9 ==
    Designate \o <<"-", "b", "a", "c", "k", "e", "n", "d", "b", "i", "n", "d", "9">>
DesignateMdns == Designate \o <<"-", "m", "d", "n", "s">>
DesignateUnbound == Designate \o <<"-", "u", "n", "b", "o", "u", "n", "d">>

\* isDesignatePod: designateServices, in the order the code tries them
DesignateServices == <<DesignateBackendbind9, DesignateMdns, DesignateUnbound>>

\* annotation keys
NetworksAnnotation == "k8s.v1.cni.cncf.io/networks"
PredictableIPAnnotation == "designate.openstack.org/predictable-ip"
PodIndexAnnotation == "designate.openstack.org/pod-index"
IPSetNameAnnotation == "designate.openstack.org/ipset-name"
\* an annotation some other writer puts on a Pod
OtherAnnotation == "example.com/note"

\* the address annotations of a Pod of the fleet, as a Pod outside the
\* fleet may carry them
CopiedAnnotations ==
    [k \in {PredictableIPAnnotation, IPSetNameAnnotation} |->
        IF k = PredictableIPAnnotation THEN AddrString(RangeStart)
        ELSE IPSetName]

\* what a Pod is created with: its name, the value of its label
\* app.kubernetes.io/name ("" for no label), its owner references (no
\* writer of the model changes these) and the annotations its creator may
\* give it
PodSpecs ==
    [m \in {"designate-mdns-0", "designate-unbound-1", "designate-api",
            "web-0"} |->
        CASE m = "designate-mdns-0" ->
                [name |-> DesignateMdns \o <<"-", "0">>, label |-> "",
                 owners |-> <<>>, initial |-> {EmptyMap}]
          [] m = "designate-unbound-1" ->
                [name |-> DesignateUnbound \o <<"-", "1">>,
                 label |-> "designate",
                 owners |-> <<[kind |-> "StatefulSet",
                               name |-> DesignateUnbound]>>,
                 initial |-> {EmptyMap}]
          [] m = "designate-api" ->
                [name |-> Designate \o <<"-", "a", "p", "i">>,
                 label |-> "designate", owners |-> <<>>,
                 initial |-> {EmptyMap}]
          [] m = "web-0" ->
                [name |-> <<"w", "e", "b", "-", "0">>, label |-> "web",
                 owners |-> <<[kind |-> "ReplicaSet",
                               name |-> DesignateMdns]>>,
                 initial |-> {EmptyMap, CopiedAnnotations}]]

PodNames == DOMAIN PodSpecs

\* m[k] of a Go map[string]string: "" for a key that is not there
MapGet(m, k) == IF k \in DOMAIN m THEN m[k] ELSE ""

\* corev1.PodSucceeded, corev1.PodFailed
TerminalPhases == {"Succeeded", "Failed"}

\* ------------------------------------------------------------------------
\* State
\* ------------------------------------------------------------------------
VARIABLES
    store,  \* the ConfigMaps of the namespace: name -> [exists, data, rv]
    pc,     \* per worker: the API call it is about to make
    loc,    \* per worker: the locals of the call in progress
    log,    \* sequential specifications only: the calls that returned
    pods,   \* the Pods of the namespace: name -> [exists, deleting, ...]
    rec,    \* the locals of the Reconcile in progress
    probe   \* a call of a function of the package: input and result

vars == <<store, pc, loc, log, pods, rec, probe>>

\* the concurrent specification runs two workers
Procs == {1, 2}

\* a ConfigMap that does not exist
Absent == [exists |-> FALSE, data |-> EmptyMap, labels |-> "none", rv |-> 0]

NoCall == [op |-> "none", pool |-> "", podIndex |-> -1, ip |-> "",
           cmData |-> EmptyMap, readRv |-> 0,
           allocatedIPs |-> {}, sibOk |-> {}, updatedMap |-> EmptyMap,
           stale |-> FALSE, wrote |-> FALSE, fault |-> FALSE,
           ret |-> "", err |-> "nil"]

\* a Pod that does not exist; rv keeps counting over the incarnations of a
\* name, as resourceVersions are never handed out twice
NoPod == [exists |-> FALSE, deleting |-> FALSE, phase |-> "",
          annotations |-> EmptyMap, rv |-> 0]

\* no Reconcile in progress.  pod, podIndex, annotations, attempt are the
\* locals of Reconcile and updatePodAnnotationsWithRetry; objAnnotations
\* and objRv are the Annotations and the resourceVersion of its *pod
\* object; the other fields remember, for the properties: seen the Pod as
\* the first Get returned it, allocated and released whether AllocateIP
\* and ReleaseIP were called, updates the number of Update calls,
\* conflicts how many of them were rejected with Conflict, wrote whether
\* one succeeded, fetched the annotations of the last re-fetch,
\* sent the annotations of the last Update, ip the address AllocateIP
\* returned
NoRec == [active |-> FALSE, pod |-> "", seen |-> NoPod, podIndex |-> -1,
          objAnnotations |-> EmptyMap, objRv |-> 0,
          annotations |-> EmptyMap, attempt |-> 0,
          allocated |-> FALSE, released |-> FALSE, updates |-> 0,
          conflicts |-> 0, wrote |-> FALSE, fetched |-> EmptyMap, sent |-> EmptyMap,
          ip |-> "", err |-> "nil"]

\* no call of a function of the package
NoProbe == [fn |-> "none", in |-> <<>>, done |-> FALSE, out |-> <<>>]

Init ==
    /\ store = [n \in Pools |-> Absent]
    /\ pc = [p \in Procs |-> "idle"]
    /\ loc = [p \in Procs |-> NoCall]
    /\ log = <<>>
    /\ pods = [m \in PodNames |-> NoPod]
    /\ rec = NoRec
    /\ probe = NoProbe

\* ------------------------------------------------------------------------
\* Pure helpers of the allocator
\* ------------------------------------------------------------------------
\* GetNextIP(predictableIPParams, allocatedIPs): walk the range from
\* RangeStart with Next(), skip the excluded addresses, take the first free
\* address strictly before RangeEnd, fail when the walk reaches RangeEnd.
\* The address handed out is marked in allocatedIPs.
RECURSIVE NextFree(_, _)
NextFree(a, allocatedIPs) ==
    IF a = RangeEnd THEN [err |-> "OutOfAddresses", ip |-> ""]
    ELSE IF AddrString(a) \in allocatedIPs THEN NextFree(a + 1, allocatedIPs)
    ELSE [err |-> "nil", ip |-> AddrString(a)]

GetNextIP(allocatedIPs) == NextFree(RangeStart, allocatedIPs)

\* second loop of allocatePredictableIPs: one GetNextIP per holder that has
\* no address yet; the first error aborts the whole call
RECURSIVE AllocateRequired(_, _, _)
AllocateRequired(required, updatedMap, allocatedIPs) ==
    IF required = <<>> THEN [err |-> "nil", updatedMap |-> updatedMap]
    ELSE LET next == GetNextIP(allocatedIPs)
         IN  IF next.err # "nil"
             THEN [err |-> next.err, updatedMap |-> EmptyMap]
             ELSE AllocateRequired(Tail(required),
                                   MapPut(updatedMap, Head(required), next.ip),
                                   allocatedIPs \cup {next.ip})

\* allocatePredictableIPs: updatedMap starts empty and receives only the
\* holders of ipHolders: those found in existingMap keep their address, the
\* others get the next free one.  Entries of existingMap that belong to
\* other holders are not copied.
allocatePredictableIPs(ipHolders, existingMap, allocatedIPs) ==
    LET kept == [h \in {ipHolders[i] : i \in 1 .. Len(ipHolders)}
                       \cap DOMAIN existingMap |-> existingMap[h]]
        predictableIPsRequired ==
            SelectSeq(ipHolders, LAMBDA h : h \notin DOMAIN existingMap)
    IN  AllocateRequired(predictableIPsRequired, kept, allocatedIPs)

\* labels AllocateIP puts on the ConfigMap it creates
IPSetLabels == "designate/ipset"

\* ------------------------------------------------------------------------
\* Worker bookkeeping
\* ------------------------------------------------------------------------
\* the call of worker p ends: l holds its locals, result included
Finish(p, l) ==
    /\ pc' = [pc EXCEPT ![p] = "done"]
    /\ loc' = [loc EXCEPT ![p] = l]

Goto(p, label, l) ==
    /\ pc' = [pc EXCEPT ![p] = label]
    /\ loc' = [loc EXCEPT ![p] = l]

\* ------------------------------------------------------------------------
\* IPSetManager.AllocateIP
\* ------------------------------------------------------------------------
\* AllocateIP entry and handleConfigMap: one Get of the pool's ConfigMap.
\* NotFound yields a fresh object with empty Data; any other error ends
\* the call.  nodeConfigMap is a new object: it carries the Data that was
\* read but not the resourceVersion (readRv only remembers, for the
\* properties, which version the Data came from; stale remembers whether
\* the ConfigMap had another version when the call came to write, wrote
\* whether the call wrote it, fault whether one of its API calls failed
\* for a reason other than NotFound, AlreadyExists or Conflict).
AllocateIPCall(p, pool, podIndex, fail) ==
    LET cm == store[pool]
        l  == [NoCall EXCEPT !.op = "alloc", !.pool = pool,
                             !.podIndex = podIndex, !.readRv = cm.rv]
    IN  IF fail
        THEN Finish(p, [l EXCEPT !.err = "store", !.fault = TRUE])
        ELSE Goto(p, "getBind",
                  [l EXCEPT !.cmData = IF cm.exists THEN cm.data
                                       ELSE EmptyMap])

\* a caller of the package: any pool, any pod index
AllocateIP(p, pools, podIndexes) ==
    /\ pc[p] = "idle"
    /\ Len(log) < MaxCalls
    /\ \E pool \in pools, podIndex \in podIndexes, fail \in BOOLEAN :
        AllocateIPCall(p, pool, podIndex, fail)
    /\ UNCHANGED <<store, log, pods, rec, probe>>

\* variant: the Get succeeds but its values are not added to allocatedIPs
SiblingReadAddsNothing(l, name, fail) ==
    IF fail THEN [l EXCEPT !.fault = TRUE]
    ELSE IF store[name].exists
    THEN [l EXCEPT !.sibOk = @ \cup {name}]
    ELSE l

\* Get of a ConfigMap whose addresses are to be avoided: on err == nil
\* every value of its Data is added to allocatedIPs, on any error
\* (NotFound included) nothing is added and the call goes on
SiblingRead(l, name, fail) ==
    IF fail THEN [l EXCEPT !.fault = TRUE]
    ELSE IF store[name].exists
    THEN [l EXCEPT !.allocatedIPs = @ \cup Values(store[name].data),
                   !.sibOk = @ \cup {name}]
    ELSE l

\* variant: a failed Get of the bind ConfigMap ends the call with the error
GetBindFailsOnError(p) ==
    /\ pc[p] = "getBind"
    /\ \E fail \in BOOLEAN :
        IF fail
        THEN Finish(p, [loc[p] EXCEPT !.err = "store", !.fault = TRUE])
        ELSE Goto(p, "getMdns",
                  SiblingRead(loc[p], BindPredIPConfigMap, fail))
    /\ UNCHANGED <<store, log, pods, rec, probe>>

\* Get of the bind ConfigMap
GetBind(p) ==
    /\ pc[p] = "getBind"
    /\ \E fail \in BOOLEAN :
        Goto(p, "getMdns", SiblingRead(loc[p], BindPredIPConfigMap, fail))
    /\ UNCHANGED <<store, log, pods, rec, probe>>

\* Get of the mdns ConfigMap, then allocatePredictableIPs for the one
\* holder pod_<podIndex>; configMap.Data = updatedMap on the local object
GetMdns(p) ==
    /\ pc[p] = "getMdns"
    /\ \E fail \in BOOLEAN :
        LET l == SiblingRead(loc[p], MdnsPredIPConfigMap, fail)
            r == allocatePredictableIPs(<<PodKey(l.podIndex)>>, l.cmData,
                                        l.allocatedIPs)
        IN  IF r.err # "nil"
            THEN Finish(p, [l EXCEPT !.err = r.err])
            ELSE Goto(p, "createOrPatch",
                      [l EXCEPT !.updatedMap = r.updatedMap])
    /\ UNCHANGED <<store, log, pods, rec, probe>>

\* what AllocateIP returns once CreateOrPatch succeeded
AllocateResult(l) ==
    IF PodKey(l.podIndex) \in DOMAIN l.updatedMap
    THEN [l EXCEPT !.ret = l.updatedMap[PodKey(l.podIndex)]]
    ELSE [l EXCEPT !.err = "noip"]

\* variant: on a found ConfigMap the patch carries the caller's Data as
\* added keys, so the stored Data becomes the stored entries plus updatedMap
CreateOrPatchMergesData(p) ==
    /\ pc[p] = "createOrPatch"
    /\ \E fail \in BOOLEAN :
        LET l  == loc[p]
            cm == store[l.pool]
            merged == [k \in (DOMAIN cm.data) \cup (DOMAIN l.updatedMap) |->
                          IF k \in DOMAIN l.updatedMap THEN l.updatedMap[k]
                          ELSE cm.data[k]]
        IN  IF fail
            THEN Finish(p, [l EXCEPT !.err = "store", !.fault = TRUE]) /\ UNCHANGED store
            ELSE IF ~cm.exists
            THEN Goto(p, "create", l) /\ UNCHANGED store
            ELSE /\ Finish(p, AllocateResult(
                            [l EXCEPT !.stale = (cm.rv # l.readRv),
                                      !.wrote = TRUE]))
                 /\ store' = [store EXCEPT ![l.pool].data = merged,
                                           ![l.pool].rv = @ + 1]
    /\ UNCHANGED <<log, pods, rec, probe>>

\* variant: on a found ConfigMap the patch sets the stored Data to the
\* caller's updatedMap
CreateOrPatchReplacesData(p) ==
    /\ pc[p] = "createOrPatch"
    /\ \E fail \in BOOLEAN :
        LET l  == loc[p]
            cm == store[l.pool]
        IN  IF fail
            THEN Finish(p, [l EXCEPT !.err = "store", !.fault = TRUE]) /\ UNCHANGED store
            ELSE IF ~cm.exists
            THEN Goto(p, "create", l) /\ UNCHANGED store
            ELSE /\ Finish(p, AllocateResult(
                            [l EXCEPT !.stale = (cm.rv # l.readRv),
                                      !.wrote = TRUE]))
                 /\ store' = [store EXCEPT ![l.pool].data = l.updatedMap,
                                           ![l.pool].rv = @ + 1]
    /\ UNCHANGED <<log, pods, rec, probe>>

\* controllerutil.CreateOrPatch, first half: Get(key, obj).
\*  - NotFound: obj is left as the caller built it; Create follows.
\*  - found: Get has loaded the stored object into obj, so the Data the
\*    caller had assigned is gone; the patch is the difference between obj
\*    before and after the mutate function, which only sets the labels.
\*    A Patch is sent only when that difference is not empty, and it then
\*    carries the labels alone, without a resourceVersion precondition.
CreateOrPatch(p) ==
    /\ pc[p] = "createOrPatch"
    /\ \E fail \in BOOLEAN :
        LET l  == loc[p]
            cm == store[l.pool]
        IN  IF fail
            THEN Finish(p, [l EXCEPT !.err = "store", !.fault = TRUE]) /\ UNCHANGED store
            ELSE IF ~cm.exists
            THEN Goto(p, "create", l) /\ UNCHANGED store
            ELSE /\ Finish(p, AllocateResult(
                            [l EXCEPT !.stale = (cm.rv # l.readRv),
                                      !.wrote = (cm.labels # IPSetLabels)]))
                 /\ store' = IF cm.labels # IPSetLabels
                             THEN [store EXCEPT ![l.pool].labels = IPSetLabels,
                                                ![l.pool].rv = @ + 1]
                             ELSE store
    /\ UNCHANGED <<log, pods, rec, probe>>

\* variant: the ConfigMap is created with the labels and no Data
CreateStoresNoData(p) ==
    /\ pc[p] = "create"
    /\ \E fail \in BOOLEAN :
        LET l == loc[p]
        IN  IF fail
            THEN Finish(p, [l EXCEPT !.err = "store", !.fault = TRUE]) /\ UNCHANGED store
            ELSE IF store[l.pool].exists
            THEN Finish(p, [l EXCEPT !.err = "AlreadyExists", !.stale = TRUE])
                 /\ UNCHANGED store
            ELSE /\ store' = [store EXCEPT ![l.pool] =
                                 [exists |-> TRUE, data |-> EmptyMap,
                                  labels |-> IPSetLabels, rv |-> 1]]
                 /\ Finish(p, AllocateResult([l EXCEPT !.wrote = TRUE,
                                                         !.stale = (store[l.pool].rv # l.readRv)]))
    /\ UNCHANGED <<log, pods, rec, probe>>

\* controllerutil.CreateOrPatch, second half: Create(obj) with the labels
\* and Data = updatedMap; AlreadyExists when the ConfigMap was created in
\* the meantime
Create(p) ==
    /\ pc[p] = "create"
    /\ \E fail \in BOOLEAN :
        LET l == loc[p]
        IN  IF fail
            THEN Finish(p, [l EXCEPT !.err = "store", !.fault = TRUE]) /\ UNCHANGED store
            ELSE IF store[l.pool].exists
            THEN Finish(p, [l EXCEPT !.err = "AlreadyExists", !.stale = TRUE])
                 /\ UNCHANGED store
            ELSE /\ store' = [store EXCEPT ![l.pool] =
                                 [exists |-> TRUE, data |-> l.updatedMap,
                                  labels |-> IPSetLabels, rv |-> 1]]
                 /\ Finish(p, AllocateResult([l EXCEPT !.wrote = TRUE,
                                                         !.stale = (store[l.pool].rv # l.readRv)]))
    /\ UNCHANGED <<log, pods, rec, probe>>

\* ------------------------------------------------------------------------
\* IPSetManager.ReleaseIP
\* ------------------------------------------------------------------------
\* keys of data whose value is ip
HoldersOf(data, ip) == {k \in DOMAIN data : data[k] = ip}

\* ReleaseIP entry: Get of the pool's ConfigMap; every error, NotFound
\* included, is returned.  The range over Data visits the keys in no fixed
\* order: the entry removed is any entry whose value is ip.  No such entry:
\* return nil without writing.
ReleaseIPCall(p, pool, ip, fail) ==
    LET cm == store[pool]
        l  == [NoCall EXCEPT !.op = "release", !.pool = pool, !.ip = ip,
                             !.readRv = cm.rv]
    IN  IF fail THEN Finish(p, [l EXCEPT !.err = "store", !.fault = TRUE])
        ELSE IF ~cm.exists THEN Finish(p, [l EXCEPT !.err = "NotFound"])
        ELSE IF HoldersOf(cm.data, ip) = {} THEN Finish(p, l)
        ELSE \E key \in HoldersOf(cm.data, ip) :
                Goto(p, "update",
                     [l EXCEPT !.cmData = MapDelete(cm.data, key)])

\* a caller of the package: any pool, any address of the range
ReleaseIP(p, pools) ==
    /\ pc[p] = "idle"
    /\ Len(log) < MaxCalls
    /\ \E pool \in pools, ip \in ReleaseArgs, fail \in BOOLEAN :
        ReleaseIPCall(p, pool, ip, fail)
    /\ UNCHANGED <<store, log, pods, rec, probe>>

\* variant: the Update carries no resourceVersion and is never rejected
UpdateUnconditional(p) ==
    /\ pc[p] = "update"
    /\ \E fail \in BOOLEAN :
        LET l == loc[p]
        IN  IF fail
            THEN Finish(p, [l EXCEPT !.err = "store", !.fault = TRUE]) /\ UNCHANGED store
            ELSE /\ store' = [store EXCEPT ![l.pool].data = l.cmData,
                                           ![l.pool].rv = @ + 1]
                 /\ Finish(p, [l EXCEPT !.wrote = TRUE])
    /\ UNCHANGED <<log, pods, rec, probe>>

\* client.Update of the object that was read: the API server rejects it
\* with Conflict when the stored resourceVersion is no longer the one read
Update(p) ==
    /\ pc[p] = "update"
    /\ \E fail \in BOOLEAN :
        LET l == loc[p]
        IN  IF fail
            THEN Finish(p, [l EXCEPT !.err = "store", !.fault = TRUE]) /\ UNCHANGED store
            ELSE IF store[l.pool].rv # l.readRv
            THEN Finish(p, [l EXCEPT !.err = "Conflict", !.stale = TRUE])
                 /\ UNCHANGED store
            ELSE /\ store' = [store EXCEPT ![l.pool].data = l.cmData,
                                           ![l.pool].rv = @ + 1]
                 /\ Finish(p, [l EXCEPT !.wrote = TRUE])
    /\ UNCHANGED <<log, pods, rec, probe>>

\* ------------------------------------------------------------------------
\* Return to the caller
\* ------------------------------------------------------------------------
\* the call returns, the worker is free for the next call
Return(p) ==
    /\ pc[p] = "done"
    /\ pc' = [pc EXCEPT ![p] = "idle"]
    /\ loc' = [loc EXCEPT ![p] = NoCall]
    /\ UNCHANGED <<store, log, pods, rec, probe>>

LogEntry(l) ==
    [op |-> l.op, pool |-> l.pool,
     arg |-> IF l.op = "alloc" THEN PodKey(l.podIndex) ELSE l.ip,
     ret |-> l.ret, fault |-> l.fault]

\* the same, and a call that returned a nil error is appended to the log
ReturnLogged(p) ==
    /\ pc[p] = "done"
    /\ pc' = [pc EXCEPT ![p] = "idle"]
    /\ loc' = [loc EXCEPT ![p] = NoCall]
    /\ log' = IF loc[p].err = "nil" THEN Append(log, LogEntry(loc[p]))
              ELSE log
    /\ UNCHANGED <<store, pods, rec, probe>>

\* ------------------------------------------------------------------------
\* PodAnnotationReconciler
\* ------------------------------------------------------------------------
\* SetupWithManager leaves MaxConcurrentReconciles at its default: one
\* worker runs the Reconcile calls, one after the other (and the
\* controller never runs two Reconcile calls of one Pod at once)
Reconciler == 1

\* updatePodAnnotationsWithRetry: const maxRetries
maxRetries == 5

\* isDesignatePod: the label, or a StatefulSet owner whose name contains a
\* service name, or a name made of a service name, a dash and a suffix
\* whose first character is a digit
isDesignatePod(pod) ==
    \/ pod.label = "designate"
    \/ \E i \in 1 .. Len(pod.owners), j \in 1 .. Len(DesignateServices) :
          /\ pod.owners[i].kind = "StatefulSet"
          /\ Contains(pod.owners[i].name, DesignateServices[j])
    \/ \E j \in 1 .. Len(DesignateServices) :
          LET prefix == DesignateServices[j] \o <<"-">>
              suffix == SubSeq(pod.name, Len(prefix) + 1, Len(pod.name))
          IN  /\ HasPrefix(pod.name, prefix)
              /\ Len(suffix) > 0
              /\ suffix[1] \in Digits

\* mergeAnnotations: the keys of new are written over existing
mergeAnnotations(existing, new) ==
    [k \in (DOMAIN existing) \cup (DOMAIN new) |->
        IF k \in DOMAIN new THEN new[k] ELSE existing[k]]

\* CreateMultusAnnotation of the one network: the JSON text
CreateMultusAnnotation(networkName, interfaceName, ip) ==
    "[{\"name\":\"" \o networkName \o "\",\"interface\":\"" \o interfaceName
        \o "\",\"ips\":[\"" \o ip \o "\"]}]"

\* the annotations createIPSetAnnotations builds from the allocated address
IPSetAnnotations(podIndex, predictableIP) ==
    [k \in {NetworksAnnotation, PredictableIPAnnotation, PodIndexAnnotation,
            IPSetNameAnnotation} |->
        CASE k = NetworksAnnotation ->
                CreateMultusAnnotation(NetworkName, InterfaceName, predictableIP)
          [] k = PredictableIPAnnotation -> predictableIP
          [] k = PodIndexAnnotation -> ToString(podIndex)
          [] k = IPSetNameAnnotation -> IPSetName]

\* Reconcile returns err
Reconciled(p, r, err) ==
    /\ pc' = [pc EXCEPT ![p] = "reconciled"]
    /\ rec' = [r EXCEPT !.err = err]

\* variant: the annotation is looked at before the deletion timestamp
ReconcileBranchAnnotationFirst(spec, pod) ==
    IF ~isDesignatePod(spec) THEN "notDesignate"
    ELSE IF MapGet(pod.annotations, PredictableIPAnnotation) # ""
    THEN "annotated"
    ELSE IF pod.deleting THEN "deletion"
    ELSE IF pod.phase \in TerminalPhases THEN "terminal"
    ELSE "annotate"

\* variant: a Pod that has the annotation is annotated again
ReconcileBranchNoAnnotationCheck(spec, pod) ==
    IF ~isDesignatePod(spec) THEN "notDesignate"
    ELSE IF pod.deleting THEN "deletion"
    ELSE IF pod.phase \in TerminalPhases THEN "terminal"
    ELSE "annotate"

\* variant: the phase is not looked at
ReconcileBranchNoPhaseCheck(spec, pod) ==
    IF ~isDesignatePod(spec) THEN "notDesignate"
    ELSE IF pod.deleting THEN "deletion"
    ELSE IF MapGet(pod.annotations, PredictableIPAnnotation) # ""
    THEN "annotated"
    ELSE "annotate"

\* variant: isDesignatePod is not asked
ReconcileBranchNoDesignateCheck(spec, pod) ==
    IF pod.deleting THEN "deletion"
    ELSE IF MapGet(pod.annotations, PredictableIPAnnotation) # ""
    THEN "annotated"
    ELSE IF pod.phase \in TerminalPhases THEN "terminal"
    ELSE "annotate"

\* the checks Reconcile makes on the Pod it fetched, in their order
ReconcileBranch(spec, pod) ==
    IF ~isDesignatePod(spec) THEN "notDesignate"
    ELSE IF pod.deleting THEN "deletion"
    ELSE IF MapGet(pod.annotations, PredictableIPAnnotation) # ""
    THEN "annotated"
    ELSE IF pod.phase \in TerminalPhases THEN "terminal"
    ELSE "annotate"

\* Reconcile entry: Get of the Pod, the checks, ExtractPodIndexFromName.
\* handlePodDeletion goes on to ReleaseIP when both annotations are there.
Reconcile(p, names, maxReconciles) ==
    /\ pc[p] = "idle"
    /\ ~rec.active
    /\ Len(log) < maxReconciles
    /\ \E m \in names, fail \in BOOLEAN :
        LET pod    == pods[m]
            r      == [NoRec EXCEPT !.active = TRUE, !.pod = m]
            got    == [r EXCEPT !.seen = pod,
                                !.objAnnotations = pod.annotations,
                                !.objRv = pod.rv]
            branch == ReconcileBranch(PodSpecs[m], pod)
            index  == ExtractPodIndexFromName(PodSpecs[m].name)
        IN  IF fail THEN Reconciled(p, r, "store")
            ELSE IF ~pod.exists THEN Reconciled(p, r, "nil")
            ELSE IF branch = "deletion"
            THEN IF /\ MapGet(pod.annotations, PredictableIPAnnotation) # ""
                    /\ MapGet(pod.annotations, IPSetNameAnnotation) # ""
                 THEN /\ pc' = [pc EXCEPT ![p] = "releaseIP"]
                      /\ rec' = got
                 ELSE Reconciled(p, got, "nil")
            ELSE IF branch # "annotate" THEN Reconciled(p, got, "nil")
            ELSE IF index.err # "nil" THEN Reconciled(p, got, index.err)
            ELSE /\ pc' = [pc EXCEPT ![p] = "getParentDesignate"]
                 /\ rec' = [got EXCEPT !.podIndex = index.n]
    /\ UNCHANGED <<store, loc, log, pods, probe>>

\* getParentDesignate, GetNADWithName, GetNetworkParametersFromNAD,
\* GetPredictableIPAM: the reads that resolve the network parameters; any
\* of them failing ends Reconcile with the error
GetParentDesignate(p) ==
    /\ pc[p] = "getParentDesignate"
    /\ \E fail \in BOOLEAN :
        IF fail THEN Reconciled(p, rec, "config")
        ELSE /\ pc' = [pc EXCEPT ![p] = "allocateIP"]
             /\ rec' = rec
    /\ UNCHANGED <<store, loc, log, pods, probe>>

\* createIPSetAnnotations: AllocateIP on the pool designate-<network>
CreateIPSetAnnotations(p) ==
    /\ pc[p] = "allocateIP"
    /\ \E fail \in BOOLEAN : AllocateIPCall(p, IPSetName, rec.podIndex, fail)
    /\ rec' = [rec EXCEPT !.allocated = TRUE]
    /\ UNCHANGED <<store, log, pods, probe>>

\* variant: the error of AllocateIP is not looked at
CreateIPSetAnnotationsReturnIgnoresError(p) ==
    /\ pc[p] = "done"
    /\ rec.active
    /\ loc[p].op = "alloc"
    /\ pc' = [pc EXCEPT ![p] = "updatePod"]
    /\ rec' = [rec EXCEPT
                 !.ip = loc[p].ret,
                 !.annotations = IPSetAnnotations(rec.podIndex, loc[p].ret)]
    /\ UNCHANGED <<store, loc, log, pods, probe>>

\* AllocateIP returned: its error ends Reconcile, its address goes into the
\* annotations handed to updatePodAnnotationsWithRetry
CreateIPSetAnnotationsReturn(p) ==
    /\ pc[p] = "done"
    /\ rec.active
    /\ loc[p].op = "alloc"
    /\ IF loc[p].err # "nil" THEN Reconciled(p, rec, loc[p].err)
       ELSE /\ pc' = [pc EXCEPT ![p] = "updatePod"]
            /\ rec' = [rec EXCEPT
                         !.ip = loc[p].ret,
                         !.annotations = IPSetAnnotations(rec.podIndex,
                                                          loc[p].ret)]
    /\ UNCHANGED <<store, loc, log, pods, probe>>

\* variant: every failed Update is followed by a re-fetch and a new attempt
UpdatePodRetriesAnyError(p) ==
    /\ pc[p] = "updatePod"
    /\ \E fail \in BOOLEAN :
        LET m      == rec.pod
            merged == mergeAnnotations(rec.objAnnotations, rec.annotations)
            r      == [rec EXCEPT !.objAnnotations = merged,
                                  !.updates = @ + 1, !.sent = merged]
        IN  IF fail \/ ~pods[m].exists \/ pods[m].rv # rec.objRv
            THEN /\ pc' = [pc EXCEPT ![p] = "refetchPod"]
                 /\ rec' = [r EXCEPT !.conflicts =
                                IF ~fail /\ pods[m].exists THEN @ + 1 ELSE @]
                 /\ UNCHANGED pods
            ELSE /\ pods' = [pods EXCEPT ![m].annotations = merged,
                                         ![m].rv = @ + 1]
                 /\ Reconciled(p, [r EXCEPT !.wrote = TRUE], "nil")
    /\ UNCHANGED <<store, loc, log, probe>>

\* one attempt of updatePodAnnotationsWithRetry: mergeAnnotations into the
\* local object, then Update.  nil ends the loop; Conflict (the stored
\* resourceVersion is not the one of the local object) leads to the
\* re-fetch; any other error, NotFound included, is returned.
UpdatePod(p) ==
    /\ pc[p] = "updatePod"
    /\ \E fail \in BOOLEAN :
        LET m      == rec.pod
            merged == mergeAnnotations(rec.objAnnotations, rec.annotations)
            r      == [rec EXCEPT !.objAnnotations = merged,
                                  !.updates = @ + 1, !.sent = merged]
        IN  IF fail THEN Reconciled(p, r, "update") /\ UNCHANGED pods
            ELSE IF ~pods[m].exists
            THEN Reconciled(p, r, "NotFound") /\ UNCHANGED pods
            ELSE IF pods[m].rv # rec.objRv
            THEN /\ pc' = [pc EXCEPT ![p] = "refetchPod"]
                 /\ rec' = [r EXCEPT !.conflicts = @ + 1]
                 /\ UNCHANGED pods
            ELSE /\ pods' = [pods EXCEPT ![m].annotations = merged,
                                         ![m].rv = @ + 1]
                 /\ Reconciled(p, [r EXCEPT !.wrote = TRUE], "nil")
    /\ UNCHANGED <<store, loc, log, probe>>

\* variant: the loop runs as long as the Update meets a conflict
RefetchPodUnbounded(p) ==
    /\ pc[p] = "refetchPod"
    /\ \E fail \in BOOLEAN :
        LET m == rec.pod
            r == [rec EXCEPT !.objAnnotations = pods[m].annotations,
                             !.objRv = pods[m].rv,
                             !.fetched = pods[m].annotations,
                             !.attempt = @ + 1]
        IN  IF fail \/ ~pods[m].exists THEN Reconciled(p, rec, "refetch")
            ELSE /\ pc' = [pc EXCEPT ![p] = "updatePod"]
                 /\ rec' = r
    /\ UNCHANGED <<store, loc, log, pods, probe>>

\* variant: the re-fetched object replaces only the resourceVersion, the
\* annotations sent stay those of the first attempt
RefetchPodKeepsOldAnnotations(p) ==
    /\ pc[p] = "refetchPod"
    /\ \E fail \in BOOLEAN :
        LET m == rec.pod
            r == [rec EXCEPT !.objRv = pods[m].rv,
                             !.fetched = pods[m].annotations,
                             !.attempt = @ + 1]
        IN  IF fail \/ ~pods[m].exists THEN Reconciled(p, rec, "refetch")
            ELSE IF r.attempt < maxRetries
            THEN /\ pc' = [pc EXCEPT ![p] = "updatePod"]
                 /\ rec' = r
            ELSE Reconciled(p, r, "conflictExhausted")
    /\ UNCHANGED <<store, loc, log, pods, probe>>

\* after a Conflict: Get of the Pod; an error (NotFound included) is
\* returned; *pod = *freshPod; attempt++ and the loop test: after the
\* maxRetries-th conflict the loop ends with the conflict error
RefetchPod(p) ==
    /\ pc[p] = "refetchPod"
    /\ \E fail \in BOOLEAN :
        LET m == rec.pod
            r == [rec EXCEPT !.objAnnotations = pods[m].annotations,
                             !.objRv = pods[m].rv,
                             !.fetched = pods[m].annotations,
                             !.attempt = @ + 1]
        IN  IF fail \/ ~pods[m].exists THEN Reconciled(p, rec, "refetch")
            ELSE IF r.attempt < maxRetries
            THEN /\ pc' = [pc EXCEPT ![p] = "updatePod"]
                 /\ rec' = r
            ELSE Reconciled(p, r, "conflictExhausted")
    /\ UNCHANGED <<store, loc, log, pods, probe>>

\* handlePodDeletion: ReleaseIP of the annotated address on the pool the
\* annotation names
HandlePodDeletion(p) ==
    /\ pc[p] = "releaseIP"
    /\ \E fail \in BOOLEAN :
        ReleaseIPCall(p, MapGet(rec.seen.annotations, IPSetNameAnnotation),
                      MapGet(rec.seen.annotations, PredictableIPAnnotation),
                      fail)
    /\ rec' = [rec EXCEPT !.released = TRUE]
    /\ UNCHANGED <<store, log, pods, probe>>

\* variant: once ReleaseIP returned, the annotations of the Pod are removed
\* with an Update
HandlePodDeletionReturnClearsPod(p) ==
    /\ pc[p] = "done"
    /\ rec.active
    /\ loc[p].op = "release"
    /\ Reconciled(p, rec, "nil")
    /\ pods' = [pods EXCEPT ![rec.pod].annotations = EmptyMap,
                            ![rec.pod].rv = @ + 1]
    /\ UNCHANGED <<store, loc, log, probe>>

\* ReleaseIP returned: its error is logged, Reconcile returns nil
HandlePodDeletionReturn(p) ==
    /\ pc[p] = "done"
    /\ rec.active
    /\ loc[p].op = "release"
    /\ Reconciled(p, rec, "nil")
    /\ UNCHANGED <<store, loc, log, pods, probe>>

\* what the log keeps of a Reconcile that called the allocator
ReconcileLogEntry(r, l) ==
    [op |-> IF r.allocated THEN "annotate" ELSE "delete", pod |-> r.pod,
     podIndex |-> r.podIndex, ip |-> r.ip, err |-> r.err,
     wrote |-> r.wrote, released |-> r.released /\ l.wrote,
     recorded |-> r.allocated /\ l.wrote, fault |-> l.fault]

\* Reconcile returns; the worker takes the next request.  The log is
\* kept where history is set
FinishReconcile(p, history) ==
    /\ pc[p] = "reconciled"
    /\ pc' = [pc EXCEPT ![p] = "idle"]
    /\ loc' = [loc EXCEPT ![p] = NoCall]
    /\ rec' = NoRec
    /\ log' = IF history /\ (rec.allocated \/ rec.released)
              THEN Append(log, ReconcileLogEntry(rec, loc[p]))
              ELSE log
    /\ UNCHANGED <<store, pods, probe>>

\* ------------------------------------------------------------------------
\* The other writers of Pods
\* ------------------------------------------------------------------------
\* the writes the Pods have seen: every write of a Pod takes one more
\* resourceVersion
RECURSIVE SumOfVersions(_)
SumOfVersions(names) ==
    IF names = {} THEN 0
    ELSE LET m == CHOOSE x \in names : TRUE
         IN  pods[m].rv + SumOfVersions(names \ {m})

PodWrites == SumOfVersions(PodNames)

\* the StatefulSet controller creates the Pod of a name
CreatePod(names, maxWrites) ==
    /\ \E m \in names :
        /\ ~pods[m].exists
        /\ PodWrites < maxWrites
        /\ \E annotations \in PodSpecs[m].initial :
            pods' = [pods EXCEPT ![m] = [exists |-> TRUE, deleting |-> FALSE,
                                        phase |-> "Pending",
                                        annotations |-> annotations,
                                        rv |-> pods[m].rv + 1]]
    /\ UNCHANGED <<store, pc, loc, log, rec, probe>>

\* another client annotates the Pod
AnnotatePod(names, maxWrites) ==
    /\ \E m \in names :
        /\ pods[m].exists
        /\ PodWrites < maxWrites
        /\ pods' = [pods EXCEPT
                      ![m].annotations = MapPut(@, OtherAnnotation,
                                                "v" \o ToString(pods[m].rv)),
                      ![m].rv = @ + 1]
    /\ UNCHANGED <<store, pc, loc, log, rec, probe>>

\* the kubelet reports that the Pod ended
EndPod(names, maxWrites) ==
    /\ \E m \in names, phase \in TerminalPhases :
        /\ pods[m].exists
        /\ pods[m].phase \notin TerminalPhases
        /\ PodWrites < maxWrites
        /\ pods' = [pods EXCEPT ![m].phase = phase, ![m].rv = @ + 1]
    /\ UNCHANGED <<store, pc, loc, log, rec, probe>>

\* deletion is requested: the deletion timestamp is set
DeletePod(names, maxWrites) ==
    /\ \E m \in names :
        /\ pods[m].exists
        /\ ~pods[m].deleting
        /\ PodWrites < maxWrites
        /\ pods' = [pods EXCEPT ![m].deleting = TRUE, ![m].rv = @ + 1]
    /\ UNCHANGED <<store, pc, loc, log, rec, probe>>

\* the Pod is gone from the store
RemovePod(names) ==
    /\ \E m \in names :
        /\ pods[m].exists
        /\ pods[m].deleting
        /\ pods' = [pods EXCEPT ![m] = [NoPod EXCEPT !.rv = pods[m].rv]]
    /\ UNCHANGED <<store, pc, loc, log, rec, probe>>

\* ------------------------------------------------------------------------
\* Specifications
\* ------------------------------------------------------------------------
\* one API call of worker p; new calls take their pool and pod index from
\* pools and podIndexes
Step(p, pools, podIndexes) ==
    \/ AllocateIP(p, pools, podIndexes)
    \/ GetBind(p)
    \/ GetMdns(p)
    \/ CreateOrPatch(p)
    \/ Create(p)
    \/ ReleaseIP(p, pools)
    \/ Update(p)

\* concurrent workers, calls interleaved at every API call
Next == \E p \in Procs : Step(p, RacePools, RacePodIndexes) \/ Return(p)

Spec == Init /\ [][Next]_vars

\* one worker: calls run one after the other, uncontended
SeqNext == Step(1, Pools, PodIndexes) \/ ReturnLogged(1)

SeqSpec == Init /\ [][SeqNext]_vars

\* one step of the reconciler or of the other writers, on the Pods of
\* names; the other writers stop after maxWrites writes of Pods, the
\* reconciler after maxReconciles calls of the allocator
ReconcileStep(names, maxWrites, maxReconciles, history) ==
    \/ Reconcile(Reconciler, names, maxReconciles)
    \/ GetParentDesignate(Reconciler)
    \/ CreateIPSetAnnotations(Reconciler)
    \/ GetBind(Reconciler)
    \/ GetMdns(Reconciler)
    \/ CreateOrPatch(Reconciler)
    \/ Create(Reconciler)
    \/ CreateIPSetAnnotationsReturn(Reconciler)
    \/ UpdatePod(Reconciler)
    \/ RefetchPod(Reconciler)
    \/ HandlePodDeletion(Reconciler)
    \/ Update(Reconciler)
    \/ HandlePodDeletionReturn(Reconciler)
    \/ FinishReconcile(Reconciler, history)
    \/ CreatePod(names, maxWrites)
    \/ AnnotatePod(names, maxWrites)
    \/ EndPod(names, maxWrites)
    \/ DeletePod(names, maxWrites)
    \/ RemovePod(names)

\* the reconciler over two Pods of the fleet and a Pod outside it, few
\* writes of other clients
RecNext ==
    ReconcileStep({"designate-mdns-0", "designate-unbound-1", "web-0"},
                  MaxPodWrites, MaxReconciles, TRUE)

RecSpec == Init /\ [][RecNext]_vars

\* the reconciler over one Pod that other clients write often enough to
\* make every attempt of the annotation write meet a conflict
RetryNext == ReconcileStep({"designate-mdns-0"}, MaxRetryWrites, MaxReconciles, TRUE)

RetrySpec == Init /\ [][RetryNext]_vars

\* the reconciler where the bind and mdns ConfigMaps, which the operator's
\* other controllers write, hold addresses of the range from the start:
\* the bind ConfigMap the first addresses of the range, the mdns ConfigMap
\* none or all the others
SiblingData(addrs) ==
    [k \in {PodKey(a - RangeStart) : a \in addrs} |->
        AddrString(RangeStart +
                   (CHOOSE i \in 0 .. RangeSize - 1 : PodKey(i) = k))]

SiblingInit ==
    /\ \E n \in 0 .. RangeSize, rest \in BOOLEAN :
        LET bind == RangeStart .. RangeStart + n - 1
            mdns == IF rest THEN RangeStart + n .. RangeEnd - 1 ELSE {}
        IN  store = [name \in Pools |->
                        CASE name = BindPredIPConfigMap /\ bind # {} ->
                                [exists |-> TRUE, data |-> SiblingData(bind),
                                 labels |-> "none", rv |-> 1]
                          [] name = MdnsPredIPConfigMap /\ mdns # {} ->
                                [exists |-> TRUE, data |-> SiblingData(mdns),
                                 labels |-> "none", rv |-> 1]
                          [] OTHER -> Absent]
    /\ pc = [p \in Procs |-> "idle"]
    /\ loc = [p \in Procs |-> NoCall]
    /\ log = <<>>
    /\ pods = [m \in PodNames |-> NoPod]
    /\ rec = NoRec
    /\ probe = NoProbe

SiblingNext ==
    ReconcileStep({"designate-mdns-0", "designate-api"}, MaxSiblingWrites,
                  MaxReconciles, TRUE)

SiblingSpec == SiblingInit /\ [][SiblingNext]_vars

\* ------------------------------------------------------------------------
\* Properties
\* ------------------------------------------------------------------------
\* worker p has a finished call of kind op that returned a nil error
Returned(p, op) == pc[p] = "done" /\ loc[p].op = op /\ loc[p].err = "nil"

\* the log holds only AllocateIP calls, all on one pool, for distinct
\* holders, and none of them met a failing API call
LogIsAllocationsOn(pool) ==
    /\ \A i \in 1 .. Len(log) :
          log[i].op = "alloc" /\ log[i].pool = pool /\ ~log[i].fault
    /\ \A i, j \in 1 .. Len(log) : i # j => log[i].arg # log[j].arg

\* the ConfigMaps AllocateIP on pool reads for addresses to avoid, its own
\* excepted
Siblings(pool) == {BindPredIPConfigMap, MdnsPredIPConfigMap} \ {pool}

\* C1 (as claimed): when all the calls so far were successful AllocateIP
\* calls on one pool for distinct holders (so the pool started absent and no
\* other pool holds an allocation), the i-th call returned the i-th address
\* of the range: RangeStart, its successor, and so on.
C1_SequentialAllocation ==
    \A pool \in Pools :
        (LogIsAllocationsOn(pool) /\ Len(log) <= RangeSize)
        => \A i \in 1 .. Len(log) :
              log[i].ret = AddrString(RangeStart + i - 1)

\* C2: no ConfigMap ever maps two different holder keys to the same address.
C2_UniqueAddresses ==
    \A n \in Pools :
        \A k1, k2 \in DOMAIN store[n].data :
            k1 # k2 => store[n].data[k1] # store[n].data[k2]

\* C2 witness: an AllocateIP for a holder that is not in the record returned
\* an address that the record holds for another holder.
C2_Witness ==
    \E p \in Procs :
        /\ Returned(p, "alloc")
        /\ PodKey(loc[p].podIndex) \notin DOMAIN store[loc[p].pool].data
        /\ loc[p].ret \in Values(store[loc[p].pool].data)

\* worker p takes a step of a call on ConfigMap pool for holder key
AllocStepOf(p, pool, key) ==
    /\ pc'[p] # pc[p]
    /\ \/ loc[p].op = "alloc" /\ loc[p].pool = pool
          /\ PodKey(loc[p].podIndex) = key
       \/ loc'[p].op = "alloc" /\ loc'[p].pool = pool
          /\ PodKey(loc'[p].podIndex) = key

\* C3: no step of an AllocateIP for holder k removes or changes an entry of
\* another holder, and none adds an entry for a holder other than k.
C3_AllocateOnlyExtends ==
    [][\A p \in Procs, pool \in Pools, i \in PodIndexes :
          AllocStepOf(p, pool, PodKey(i))
          => /\ \A k \in (DOMAIN store[pool].data) \ {PodKey(i)} :
                    /\ k \in DOMAIN store'[pool].data
                    /\ store'[pool].data[k] = store[pool].data[k]
             /\ (DOMAIN store'[pool].data)
                    \subseteq (DOMAIN store[pool].data) \cup {PodKey(i)}]_vars

\* C3 witness: a successful AllocateIP for k has returned on a record that
\* holds the entry of another holder.
C3_Witness ==
    \E p \in Procs :
        /\ Returned(p, "alloc")
        /\ (DOMAIN store[loc[p].pool].data) \ {PodKey(loc[p].podIndex)} # {}

\* C4 (as claimed): an AllocateIP for a holder that is in the record returns
\* the recorded address, and an AllocateIP that directly follows a
\* successful AllocateIP for the same holder on the same pool returns the
\* same address.
C4_Idempotent ==
    Returned(1, "alloc")
    => LET l == loc[1]
           key == PodKey(l.podIndex)
       IN  /\ key \in DOMAIN store[l.pool].data
                => l.ret = store[l.pool].data[key]
           /\ (Len(log) > 0 /\ log[Len(log)].op = "alloc"
               /\ log[Len(log)].pool = l.pool /\ log[Len(log)].arg = key)
                => l.ret = log[Len(log)].ret

\* C5 (as claimed): an AllocateIP on a pool never returns an address that a
\* sibling pool's record holds, whatever the holder and the pool's record.
C5_NeverSiblingAddress ==
    Returned(1, "alloc")
    => \A s \in Siblings(loc[1].pool) :
           loc[1].ret \notin Values(store[s].data)

\* C5 (amended): when the holder is not yet in the pool's record and the
\* read of the sibling record succeeded, the address returned is none of
\* the sibling's.
C5_NeverSiblingAddressWhenRead ==
    (Returned(1, "alloc") /\ PodKey(loc[1].podIndex) \notin DOMAIN loc[1].cmData)
    => \A s \in Siblings(loc[1].pool) \cap loc[1].sibOk :
           loc[1].ret \notin Values(store[s].data)

\* C5 witness: the sibling holds the first address of the range, its read
\* succeeded, and a new holder was given another address.
C5_Witness ==
    /\ Returned(1, "alloc")
    /\ PodKey(loc[1].podIndex) \notin DOMAIN loc[1].cmData
    /\ \E s \in Siblings(loc[1].pool) \cap loc[1].sibOk :
           AddrString(RangeStart) \in Values(store[s].data)
    /\ loc[1].ret # AddrString(RangeStart)

\* C6 (as claimed): two AllocateIP calls for different holders on one pool
\* that both read the record before it was first written have both
\* returned successfully: the record holds both holders' entries with the
\* addresses returned.
C6_RaceKeepsBoth ==
    \A p, q \in Procs :
        (/\ p # q
         /\ Returned(p, "alloc") /\ Returned(q, "alloc")
         /\ loc[p].pool = loc[q].pool
         /\ loc[p].podIndex # loc[q].podIndex
         /\ loc[p].readRv = 0 /\ loc[q].readRv = 0
         /\ store[loc[p].pool].rv <= 1)
        => LET data == store[loc[p].pool].data
           IN  /\ PodKey(loc[p].podIndex) \in DOMAIN data
               /\ PodKey(loc[q].podIndex) \in DOMAIN data
               /\ data[PodKey(loc[p].podIndex)] = loc[p].ret
               /\ data[PodKey(loc[q].podIndex)] = loc[q].ret

\* C7 (as claimed): a call that came to write a record which had been
\* modified since the call read it returns an error.
C7_StaleWriteFails ==
    \A p \in Procs :
        (pc[p] = "done" /\ loc[p].stale) => loc[p].err # "nil"

\* C8 (as claimed): after RangeSize successful AllocateIP calls for distinct
\* holders on a pool, an AllocateIP for a further holder fails with the
\* out-of-addresses error, returns no address and adds no entry.
C8_ExhaustedAfterRange ==
    (/\ pc[1] = "done" /\ loc[1].op = "alloc" /\ ~loc[1].fault
     /\ Len(log) = RangeSize
     /\ LogIsAllocationsOn(loc[1].pool)
     /\ \A i \in 1 .. Len(log) : log[i].arg # PodKey(loc[1].podIndex))
    => /\ loc[1].err = "OutOfAddresses"
       /\ loc[1].ret = ""
       /\ ~loc[1].wrote

\* C9 (as claimed): a ReleaseIP for an address that no entry of the record
\* maps to (the record may not exist) returns nil and writes nothing.
C9_ReleaseAbsentIsNoop ==
    (/\ pc[1] = "done" /\ loc[1].op = "release" /\ ~loc[1].fault
     /\ ~loc[1].wrote
     /\ HoldersOf(store[loc[1].pool].data, loc[1].ip) = {})
    => loc[1].err = "nil"

\* worker p's ReleaseIP writes the record and returns nil
ReleaseWrites(p) ==
    /\ pc[p] = "update" /\ pc'[p] = "done"
    /\ loc'[p].err = "nil"

\* C10: a ReleaseIP that succeeds on a record holding the address removes
\* exactly one entry, an entry whose value is the address, leaves the other
\* entries and the other records as they are, and afterwards no entry
\* maps to the address.
C10_ReleaseRemovesOne ==
    [][\A p \in Procs :
          ReleaseWrites(p)
          => LET pool == loc[p].pool
                 ip == loc[p].ip
             IN  /\ \E k \in HoldersOf(store[pool].data, ip) :
                        store'[pool].data = MapDelete(store[pool].data, k)
                 /\ HoldersOf(store'[pool].data, ip) = {}
                 /\ \A n \in Pools \ {pool} : store'[n] = store[n]]_vars

\* C10 witness: a ReleaseIP has written the record and returned nil, and no
\* entry maps to the address.
C10_Witness ==
    \E p \in Procs :
        /\ Returned(p, "release")
        /\ loc[p].wrote
        /\ HoldersOf(store[loc[p].pool].data, loc[p].ip) = {}

\* ------------------------------------------------------------------------
\* Properties of the reconciler
\* ------------------------------------------------------------------------
\* the value of the predictable-ip annotation of a Pod object
PredictableIPOf(pod) == MapGet(pod.annotations, PredictableIPAnnotation)

\* the Reconcile in progress fetched a Pod that exists and isDesignatePod
SawDesignatePod == rec.active /\ rec.seen.exists /\ isDesignatePod(PodSpecs[rec.pod])

\* the log holds only Reconcile calls that annotated their Pod, met no
\* failing API call, and came in the order of the ordinals 0, 1, ...
AnnotatedInOrder(i) ==
    /\ log[i].op = "annotate"
    /\ log[i].err = "nil"
    /\ ~log[i].fault
    /\ log[i].podIndex = i - 1

LogIsAnnotationsInOrder == \A i \in 1 .. Len(log) : AnnotatedInOrder(i)

\* C11 (as claimed): end-to-end reuse.  On a pool that started absent,
\* the members of ordinals 0, 1, ... reconciled in that order hold the
\* addresses of the range in order, RangeStart first; and when the
\* deletion of the member of ordinal 1 is reconciled after that, the
\* address RangeStart + 1 is released: the pool record holds it no more.
C11_EndToEndReuse ==
    /\ (LogIsAnnotationsInOrder /\ Len(log) <= RangeSize)
       => \A i \in 1 .. Len(log) :
             log[i].ip = AddrString(RangeStart + i - 1)
    /\ (/\ Len(log) >= 3
        /\ AnnotatedInOrder(1) /\ AnnotatedInOrder(2)
        /\ log[3].op = "delete" /\ log[3].podIndex = 1 /\ ~log[3].fault)
       => /\ log[3].released
          /\ AddrString(RangeStart + 1) \notin Values(store[IPSetName].data)

\* the Reconcile in progress returned after its Update of the Pod succeeded
AnnotationWritten == pc[Reconciler] = "reconciled" /\ rec.wrote

\* the annotations written carry the address AllocateIP returned for the
\* key pod_<ordinal>, the ordinal parsed from the name and the pool used
WrittenAsAllocated ==
    LET l       == loc[Reconciler]
        ordinal == ExtractPodIndexFromName(PodSpecs[rec.pod].name).n
    IN  /\ l.op = "alloc" /\ l.err = "nil"
        /\ l.podIndex = ordinal
        /\ MapGet(rec.sent, PredictableIPAnnotation) = l.ret
        /\ MapGet(rec.sent, PodIndexAnnotation) = ToString(ordinal)
        /\ MapGet(rec.sent, IPSetNameAnnotation) = l.pool

\* C12 (as claimed): a Reconcile that annotated its member wrote the
\* address AllocateIP returned for pod_<ordinal>, the ordinal of the name
\* and the name of the pool, and the pool record held that allocation when
\* the annotation was written.
C12_AnnotatesRecordedAllocation ==
    AnnotationWritten
    => /\ WrittenAsAllocated
       /\ MapGet(store[IPSetName].data, PodKey(rec.podIndex)) = rec.ip

\* this step calls AllocateIP or Update for the Pod m
CallsAllocateOrUpdate(m) ==
    /\ rec.active /\ rec.pod = m
    /\ \/ ~rec.allocated /\ rec'.allocated
       \/ rec'.updates > rec.updates

\* C13: once a Pod that isDesignatePod carries a non-empty predictable-ip
\* annotation, no step calls AllocateIP or Update for it, and as long as
\* the Pod exists the annotated address stays what it is.
C13_AnnotatedNeverAllocatedAgain ==
    [][\A m \in PodNames :
          (/\ pods[m].exists
           /\ isDesignatePod(PodSpecs[m])
           /\ PredictableIPOf(pods[m]) # "")
          => /\ ~CallsAllocateOrUpdate(m)
             /\ pods'[m].exists
                => PredictableIPOf(pods'[m]) = PredictableIPOf(pods[m])]_vars

\* a Reconcile of an annotated Pod, not being deleted, returned without a
\* call of AllocateIP or Update
C13_Witness ==
    /\ pc[Reconciler] = "reconciled"
    /\ SawDesignatePod
    /\ PredictableIPOf(rec.seen) # ""
    /\ ~rec.seen.deleting
    /\ ~rec.allocated /\ rec.updates = 0

\* C14: a Reconcile that fetched a Pod that isDesignatePod with deletion
\* requested, whatever its annotations and phase, never calls AllocateIP
\* or Update; it calls ReleaseIP exactly when the address annotation is
\* there, for the annotated address on the annotated pool, after which (the
\* call returning nil) the pool record holds the address no more; and it
\* returns nil.
C14_DeletionReleasesOnly ==
    (SawDesignatePod /\ rec.seen.deleting)
    => LET l == loc[Reconciler]
       IN  /\ ~rec.allocated /\ rec.updates = 0
           /\ rec.released
              => /\ l.op = "release"
                 /\ l.ip = PredictableIPOf(rec.seen)
                 /\ l.pool = MapGet(rec.seen.annotations, IPSetNameAnnotation)
           /\ pc[Reconciler] = "reconciled"
              => /\ rec.err = "nil"
                 /\ rec.released <=> PredictableIPOf(rec.seen) # ""
                 /\ (rec.released /\ l.err = "nil")
                    => l.ip \notin Values(store[l.pool].data)

\* the Reconcile of an annotated Pod with deletion requested returned
\* after ReleaseIP removed the entry of the annotated address
C14_Witness ==
    /\ pc[Reconciler] = "reconciled"
    /\ SawDesignatePod /\ rec.seen.deleting
    /\ rec.released /\ loc[Reconciler].wrote

\* C15 (as claimed): while a Pod that isDesignatePod is unannotated and in
\* a terminal phase, no step calls AllocateIP or Update for it and no step
\* annotates it.
C15_TerminalNeverAnnotated ==
    [][\A m \in PodNames :
          (/\ pods[m].exists
           /\ isDesignatePod(PodSpecs[m])
           /\ PredictableIPOf(pods[m]) = ""
           /\ pods[m].phase \in TerminalPhases)
          => /\ ~CallsAllocateOrUpdate(m)
             /\ pods'[m].exists => PredictableIPOf(pods'[m]) = ""]_vars

\* C15 (amended): a Reconcile that fetched a Pod that isDesignatePod,
\* unannotated and in a terminal phase never calls AllocateIP, ReleaseIP
\* or Update, and returns nil.
C15_TerminalSeenNeverAnnotated ==
    (/\ SawDesignatePod
     /\ PredictableIPOf(rec.seen) = ""
     /\ rec.seen.phase \in TerminalPhases)
    => /\ ~rec.allocated /\ ~rec.released /\ rec.updates = 0
       /\ pc[Reconciler] = "reconciled" => rec.err = "nil"

\* the Reconcile of an unannotated Pod in a terminal phase, not being
\* deleted, returned
C15_Witness ==
    /\ pc[Reconciler] = "reconciled"
    /\ SawDesignatePod
    /\ PredictableIPOf(rec.seen) = ""
    /\ rec.seen.phase \in TerminalPhases
    /\ ~rec.seen.deleting

\* the Reconcile in progress fetched a Pod that exists and is no
\* isDesignatePod
SawOtherPod ==
    rec.active /\ rec.seen.exists /\ ~isDesignatePod(PodSpecs[rec.pod])

\* C16: a Reconcile that fetched a Pod that is no isDesignatePod, be it
\* with deletion requested or with the address annotations, returns nil
\* at once: it calls neither AllocateIP nor ReleaseIP nor Update, and none
\* of its steps changes a ConfigMap or a Pod.
C16_NotDesignateUntouched ==
    [][/\ SawOtherPod
          => /\ pc[Reconciler] = "reconciled" /\ rec.err = "nil"
             /\ ~rec.allocated /\ ~rec.released /\ rec.updates = 0
       /\ (pc' # pc /\ (SawOtherPod \/ SawOtherPod'))
          => store' = store /\ pods' = pods]_vars

\* the Reconcile of a Pod outside the fleet returned; the Pod has deletion
\* requested and carries the annotations of an address the pool holds
C16_Witness ==
    /\ pc[Reconciler] = "reconciled"
    /\ SawOtherPod
    /\ rec.seen.deleting
    /\ PredictableIPOf(rec.seen) \in Values(store[IPSetName].data)
    /\ MapGet(rec.seen.annotations, IPSetNameAnnotation) = IPSetName

\* C17 (as claimed): one annotation write issues at most maxRetries Update
\* calls, and when maxRetries of them were rejected with Conflict,
\* Reconcile returns the conflict-exhausted error.
C17_AtMostFiveAttempts ==
    /\ rec.updates <= maxRetries
    /\ (pc[Reconciler] = "reconciled" /\ rec.conflicts = maxRetries)
       => rec.err = "conflictExhausted"

\* C17 (amended): one annotation write issues at most maxRetries Update
\* calls; when maxRetries of them were rejected with Conflict and the
\* re-fetch after each of them succeeded, Reconcile returns the
\* conflict-exhausted error, and it returns that error in no other case.
C17_AtMostFiveAttemptsRefetched ==
    /\ rec.updates <= maxRetries
    /\ (/\ pc[Reconciler] = "reconciled"
        /\ rec.conflicts = maxRetries
        /\ rec.err # "refetch")
       => rec.err = "conflictExhausted"
    /\ rec.err = "conflictExhausted"
       => /\ rec.updates = maxRetries /\ rec.conflicts = maxRetries
          /\ ~rec.wrote

\* Reconcile returned the conflict-exhausted error
C17_Witness ==
    /\ pc[Reconciler] = "reconciled"
    /\ rec.err = "conflictExhausted"

\* C18: in the annotation write an Update call after the first is made only
\* after the one before it was rejected with Conflict and the re-fetch that
\* followed succeeded; an Update that fails otherwise and a re-fetch that
\* fails end the write at once, and Reconcile returns an error.
C18_RetryOnlyOnConflict ==
    /\ rec.updates <= rec.conflicts + 1
    /\ pc[Reconciler] = "updatePod"
       => rec.updates = rec.conflicts /\ rec.attempt = rec.conflicts
    /\ rec.err \in {"update", "NotFound"}
       => /\ pc[Reconciler] = "reconciled"
          /\ rec.updates = rec.conflicts + 1
          /\ ~rec.wrote
    /\ rec.err = "refetch"
       => /\ pc[Reconciler] = "reconciled"
          /\ rec.updates = rec.conflicts
          /\ rec.attempt = rec.conflicts - 1
          /\ ~rec.wrote

\* after a Conflict and a re-fetch, the next Update failed for another
\* reason and Reconcile returned the error
C18_Witness ==
    /\ pc[Reconciler] = "reconciled"
    /\ rec.err = "update"
    /\ rec.conflicts >= 1

\* C19: when the Update that succeeded came after a conflict, every
\* annotation of the re-fetched Pod whose key is not one of the new
\* annotations is in the object written, with the value it had.
C19_MergeKeepsFetched ==
    (rec.wrote /\ rec.conflicts > 0)
    => \A k \in (DOMAIN rec.fetched) \ (DOMAIN rec.annotations) :
          k \in DOMAIN rec.sent /\ rec.sent[k] = rec.fetched[k]

\* the Update succeeded after a conflict, and the re-fetched Pod carried
\* an annotation of another writer
C19_Witness ==
    /\ rec.wrote /\ rec.conflicts > 0
    /\ OtherAnnotation \in DOMAIN rec.fetched
    /\ OtherAnnotation \in DOMAIN pods[rec.pod].annotations

\* the Reconcile in progress met a failing ordinal extraction, a failing
\* resolution of the network parameters or a failing AllocateIP
FailedBeforeWrite ==
    \/ rec.err \in {"syntax", "noOrdinal", "config"}
    \/ /\ rec.allocated
       /\ pc[Reconciler] \in {"done", "reconciled"}
       /\ loc[Reconciler].err # "nil"

\* C20: Update is called only after AllocateIP returned an address to the
\* same Reconcile, and the annotation sent is that address; a Reconcile
\* whose ordinal extraction, network-parameter resolution or AllocateIP
\* (exhaustion of the range included) fails calls no Update, returns the
\* error, and the Pod it fetched stays without the address annotation.
C20_AnnotateOnlyAfterAllocate ==
    LET l == loc[Reconciler]
    IN  /\ rec.updates > 0
           => /\ rec.allocated
              /\ l.op = "alloc" /\ l.err = "nil"
              /\ l.ret # "" /\ rec.ip = l.ret
              /\ MapGet(rec.sent, PredictableIPAnnotation) = l.ret
        /\ (SawDesignatePod /\ FailedBeforeWrite)
           => /\ rec.updates = 0
              /\ pods[rec.pod].exists => PredictableIPOf(pods[rec.pod]) = ""
              /\ pc[Reconciler] = "reconciled"
                 => /\ rec.err # "nil"
                    /\ rec.allocated => rec.err = l.err

\* AllocateIP found every address of the range taken; Reconcile returned
\* the error and the Pod is there without the annotation
C20_Witness ==
    /\ pc[Reconciler] = "reconciled"
    /\ rec.err = "OutOfAddresses"
    /\ pods[rec.pod].exists
    /\ PredictableIPOf(pods[rec.pod]) = ""

\* ------------------------------------------------------------------------
\* the reconciler over two Pods of the fleet, with enough Reconciles for a
\* request to come again after other Pods were annotated and deleted
RedeliverNext ==
    ReconcileStep({"designate-mdns-0", "designate-unbound-1"},
                  MaxRedeliverWrites, MaxRedeliveries, TRUE)

RedeliverSpec == Init /\ [][RedeliverNext]_vars

\* an earlier Reconcile of the Pod wrote the allocation into the ConfigMap
\* and ended before the Pod was annotated
RecordedNotAnnotated(i, m) ==
    /\ log[i].pod = m
    /\ log[i].recorded
    /\ ~log[i].wrote
    /\ log[i].err # "nil"

\* C21: when a Reconcile recorded a Pod's allocation and failed before the
\* annotation was written, a later Reconcile of the Pod, still without the
\* annotation until then, annotates it with the recorded address, and the
\* ConfigMap holds that address under the Pod's key
C21_RedeliveryReusesRecorded ==
    (pc[Reconciler] = "reconciled" /\ rec.wrote) =>
        \A i \in 1 .. Len(log) :
            (/\ RecordedNotAnnotated(i, rec.pod)
             /\ \A j \in i + 1 .. Len(log) :
                    log[j].pod = rec.pod => ~log[j].wrote) =>
                /\ rec.ip = log[i].ip
                /\ store[IPSetName].exists
                /\ MapGet(store[IPSetName].data, PodKey(rec.podIndex))
                        = rec.ip

\* ------------------------------------------------------------------------
\* the addresses of the bind and mdns ConfigMaps that the call read
ExclusionsRead(l) == UNION {Values(store[name].data) : name \in l.sibOk}

\* C22: AllocateIP does not fail because the bind or the mdns ConfigMap
\* cannot be read: after each of the two Gets, failed or not, the call goes
\* on without the store error, and allocatedIPs holds exactly the addresses
\* of those of the two ConfigMaps that were read
C22_SiblingReadFailureNotFatal ==
    [][/\ pc[1] = "getBind" =>
            /\ pc'[1] = "getMdns"
            /\ loc'[1].err = "nil"
            /\ loc'[1].allocatedIPs = ExclusionsRead(loc'[1])
       /\ pc[1] = "getMdns" =>
            /\ loc'[1].err # "store"
            /\ loc'[1].allocatedIPs = ExclusionsRead(loc'[1])
            /\ loc'[1].err = "nil" => pc'[1] = "createOrPatch"]_vars

\* a call where one Get failed, the other returned addresses, and an
\* address was returned
C22_Witness ==
    /\ pc[1] = "done"
    /\ loc[1].op = "alloc"
    /\ loc[1].fault
    /\ loc[1].err = "nil"
    /\ loc[1].ret # ""
    /\ Cardinality(loc[1].sibOk) = 1
    /\ loc[1].allocatedIPs # {}

\* ------------------------------------------------------------------------
\* C23: AllocateIP on a pool whose ConfigMap does not exist reads an empty
\* table without an error; the allocation that succeeds first creates the
\* ConfigMap with the entry of its holder, the address it returns; and a
\* ConfigMap that exists is never deleted
C23_FirstAllocationCreatesRecord ==
    [][/\ (/\ pc[1] = "idle"
           /\ pc'[1] = "getBind"
           /\ ~store[loc'[1].pool].exists) =>
                /\ loc'[1].cmData = EmptyMap
                /\ loc'[1].err = "nil"
       /\ \A name \in Pools :
            /\ store[name].exists => store'[name].exists
            /\ (~store[name].exists /\ store'[name].exists) =>
                /\ pc[1] = "create"
                /\ loc[1].pool = name
                /\ loc'[1].err = "nil"
                /\ loc'[1].ret # ""
                /\ store'[name].data =
                        MapPut(EmptyMap, PodKey(loc[1].podIndex),
                               loc'[1].ret)]_vars

\* a first allocation on an absent pool that succeeded
C23_Witness ==
    /\ pc[1] = "done"
    /\ loc[1].op = "alloc"
    /\ loc[1].err = "nil"
    /\ loc[1].cmData = EmptyMap
    /\ loc[1].readRv = 0
    /\ store[loc[1].pool].exists
    /\ store[loc[1].pool].rv = 1
    /\ PodKey(loc[1].podIndex) \in DOMAIN store[loc[1].pool].data

\* ------------------------------------------------------------------------
\* The functions of the package, called on their own
\* ------------------------------------------------------------------------
\* the loop of GetPodPredictableIP and CreatePredictableMultusAnnotation:
\* ip.Next() podIndex times, an error when a step arrives at RangeEnd
RECURSIVE NextUntilEnd(_, _, _, _)
NextUntilEnd(ip, rangeEnd, i, podIndex) ==
    IF i >= podIndex THEN [err |-> "nil", ip |-> ip]
    ELSE IF ip + 1 = rangeEnd THEN [err |-> "exceedsRange", ip |-> 0]
    ELSE NextUntilEnd(ip + 1, rangeEnd, i + 1, podIndex)

\* GetPodPredictableIP: the text of the address, or the error
GetPodPredictableIP(rangeStart, rangeEnd, podIndex) ==
    LET r == NextUntilEnd(rangeStart, rangeEnd, 0, podIndex)
    IN  IF r.err # "nil" THEN [err |-> r.err, ip |-> ""]
        ELSE [err |-> "nil", ip |-> AddrString(r.ip)]

\* CreatePredictableMultusAnnotation: the annotation of the one network
\* with the address, or the error
CreatePredictableMultusAnnotation(networkName, interfaceName, podIndex, rangeStart, rangeEnd) ==
    LET r == NextUntilEnd(rangeStart, rangeEnd, 0, podIndex)
    IN  IF r.err # "nil" THEN [err |-> r.err, annotation |-> ""]
        ELSE [err |-> "nil",
              annotation |-> CreateMultusAnnotation(networkName,
                                 interfaceName, AddrString(r.ip))]

\* one loop of GeneratePredictableIPMaps: an entry per replica from ip on,
\* stopping at RangeEnd; the map and the address the loop ended on
RECURSIVE GenerateIPs(_, _, _, _, _, _)
GenerateIPs(ip, rangeEnd, i, replicas, keyPrefix, map) ==
    IF i >= replicas \/ ip = rangeEnd THEN [map |-> map, ip |-> ip]
    ELSE GenerateIPs(ip + 1, rangeEnd, i + 1, replicas, keyPrefix,
                     MapPut(map, keyPrefix \o ToString(i), AddrString(ip)))

\* GeneratePredictableIPMaps: the bind addresses, then the mdns addresses
GeneratePredictableIPMaps(rangeStart, rangeEnd, bindReplicas, mdnsReplicas) ==
    LET bind == GenerateIPs(rangeStart, rangeEnd, 0, bindReplicas,
                            "bind_address_", EmptyMap)
        mdns == GenerateIPs(bind.ip, rangeEnd, 0, mdnsReplicas,
                            "mdns_address_", EmptyMap)
    IN  [bindMap |-> bind.map, mdnsMap |-> mdns.map]

\* Pod names: a service name or another word, then some characters
NameSuffixes ==
    UNION {[1 .. n -> {"-", "0", "7", "x"}] : n \in 0 .. MaxSuffixLen}
NamePrefixes ==
    {DesignateBackendbind9, DesignateMdns, DesignateUnbound,
     <<"u", "n", "r", "e", "l", "a", "t", "e", "d">>}
ProbeNames == {prefix \o suffix : prefix \in NamePrefixes,
                                  suffix \in NameSuffixes}
\* values of the label app.kubernetes.io/name ("" when it is not set)
ProbeLabels == {"", "designate", "web"}
\* owner references
ProbeOwners ==
    {<<>>,
     <<[kind |-> "StatefulSet", name |-> DesignateMdns]>>,
     <<[kind |-> "StatefulSet",
        name |-> <<"m", "y", "-">> \o DesignateUnbound \o <<"-", "x">>]>>,
     <<[kind |-> "StatefulSet", name |-> <<"w", "e", "b">>]>>,
     <<[kind |-> "ReplicaSet", name |-> DesignateMdns]>>,
     <<[kind |-> "ReplicaSet", name |-> <<"w", "e", "b">>],
       [kind |-> "StatefulSet", name |-> DesignateBackendbind9]>>}
\* ranges [rangeStart, rangeEnd), the empty one included
ProbeRanges ==
    {[rangeStart |-> a, rangeEnd |-> a + n] :
        a \in RangeStart .. RangeStart + 1, n \in 0 .. MaxRangeSize}

\* the inputs of the calls
ProbeInputs ==
    {[fn |-> "isDesignatePod",
      in |-> [name |-> name, label |-> label, owners |-> owners],
      done |-> FALSE, out |-> <<>>] :
        name \in ProbeNames, label \in ProbeLabels, owners \in ProbeOwners}
    \cup
    {[fn |-> "GetPodPredictableIP",
      in |-> [range |-> range, podIndex |-> podIndex],
      done |-> FALSE, out |-> <<>>] :
        range \in ProbeRanges, podIndex \in 0 .. MaxProbeIndex}
    \cup
    {[fn |-> "GeneratePredictableIPMaps",
      in |-> [range |-> range, bindReplicas |-> b, mdnsReplicas |-> m],
      done |-> FALSE, out |-> <<>>] :
        range \in ProbeRanges, b \in 0 .. MaxReplicas,
        m \in 0 .. MaxReplicas}

PureInit ==
    /\ store = [n \in Pools |-> Absent]
    /\ pc = [p \in Procs |-> "idle"]
    /\ loc = [p \in Procs |-> NoCall]
    /\ log = <<>>
    /\ pods = [m \in PodNames |-> NoPod]
    /\ rec = NoRec
    /\ probe \in ProbeInputs

\* Reconcile's checks of a Pod it fetched: isDesignatePod, and
\* ExtractPodIndexFromName of its name
ClassifyPod ==
    /\ probe.fn = "isDesignatePod"
    /\ ~probe.done
    /\ probe' = [probe EXCEPT !.done = TRUE,
                    !.out = [managed |-> isDesignatePod(probe.in),
                             index |-> ExtractPodIndexFromName(
                                           probe.in.name)]]
    /\ UNCHANGED <<store, pc, loc, log, pods, rec>>

\* GetPodPredictableIP and CreatePredictableMultusAnnotation of a range
\* and a pod index
PredictIP ==
    /\ probe.fn = "GetPodPredictableIP"
    /\ ~probe.done
    /\ probe' = [probe EXCEPT !.done = TRUE,
                    !.out = [ip |-> GetPodPredictableIP(
                                        probe.in.range.rangeStart,
                                        probe.in.range.rangeEnd,
                                        probe.in.podIndex),
                             multus |-> CreatePredictableMultusAnnotation(
                                        NetworkName, InterfaceName,
                                        probe.in.podIndex,
                                        probe.in.range.rangeStart,
                                        probe.in.range.rangeEnd)]]
    /\ UNCHANGED <<store, pc, loc, log, pods, rec>>

\* GeneratePredictableIPMaps of a range and two replica counts
GenerateMaps ==
    /\ probe.fn = "GeneratePredictableIPMaps"
    /\ ~probe.done
    /\ probe' = [probe EXCEPT !.done = TRUE,
                    !.out = GeneratePredictableIPMaps(
                                probe.in.range.rangeStart,
                                probe.in.range.rangeEnd,
                                probe.in.bindReplicas,
                                probe.in.mdnsReplicas)]
    /\ UNCHANGED <<store, pc, loc, log, pods, rec>>

PureNext == ClassifyPod \/ PredictIP \/ GenerateMaps

PureSpec == PureInit /\ [][PureNext]_vars

\* ------------------------------------------------------------------------
\* C24: a Pod is classified as a designate Pod exactly when its label
\* app.kubernetes.io/name is designate, or it has an owner of kind
\* StatefulSet whose name contains a service name, or its name is a
\* service name, a dash and a numeric ordinal
C24_ManagedIffRule ==
    (probe.fn = "isDesignatePod" /\ probe.done) =>
        LET pod == probe.in
            byLabel == pod.label = "designate"
            byOwner ==
                \E i \in 1 .. Len(pod.owners),
                   j \in 1 .. Len(DesignateServices) :
                    /\ pod.owners[i].kind = "StatefulSet"
                    /\ Contains(pod.owners[i].name, DesignateServices[j])
            byName ==
                \E j \in 1 .. Len(DesignateServices) :
                    LET prefix == DesignateServices[j] \o <<"-">>
                        suffix == SubSeq(pod.name, Len(prefix) + 1,
                                         Len(pod.name))
                    IN  /\ HasPrefix(pod.name, prefix)
                        /\ Len(suffix) > 0
                        /\ \A i \in 1 .. Len(suffix) : suffix[i] \in Digits
        IN  probe.out.managed <=> (byLabel \/ byOwner \/ byName)

\* C25: every address GetPodPredictableIP and
\* CreatePredictableMultusAnnotation return, and every address in the maps
\* of GeneratePredictableIPMaps, is in [rangeStart, rangeEnd)
C25_EndNeverIssued ==
    LET inRange == {AddrString(a) :
                        a \in probe.in.range.rangeStart ..
                              probe.in.range.rangeEnd - 1}
    IN  /\ (probe.fn = "GetPodPredictableIP" /\ probe.done) =>
            /\ probe.out.ip.err = "nil" => probe.out.ip.ip \in inRange
            /\ probe.out.multus.err = "nil" =>
                \E ip \in inRange :
                    probe.out.multus.annotation =
                        CreateMultusAnnotation(NetworkName, InterfaceName,
                                               ip)
        /\ (probe.fn = "GeneratePredictableIPMaps" /\ probe.done) =>
            /\ Values(probe.out.bindMap) \subseteq inRange
            /\ Values(probe.out.mdnsMap) \subseteq inRange

\* C30: a Pod that is a designate Pod by its name alone, without the label
\* and without an owner of kind StatefulSet, has a name from which
\* ExtractPodIndexFromName returns an ordinal, zero or more
C30_NameRuleGivesOrdinal ==
    (/\ probe.fn = "isDesignatePod"
     /\ probe.done
     /\ probe.out.managed
     /\ probe.in.label # "designate"
     /\ \A i \in 1 .. Len(probe.in.owners) :
            probe.in.owners[i].kind # "StatefulSet") =>
        /\ probe.out.index.err = "nil"
        /\ probe.out.index.n >= 0

\* ------------------------------------------------------------------------
\* a designate Pod that exists and is not being deleted
LiveDesignatePod(m) ==
    /\ pods[m].exists
    /\ ~pods[m].deleting
    /\ isDesignatePod(PodSpecs[m])

\* C26: no two designate Pods that exist and are not being deleted carry
\* the same predictable-ip annotation
C26_LiveAddressesDistinct ==
    \A m, n \in PodNames :
        (/\ m # n
         /\ LiveDesignatePod(m)
         /\ LiveDesignatePod(n)
         /\ MapGet(pods[m].annotations, PredictableIPAnnotation) # "") =>
            MapGet(pods[m].annotations, PredictableIPAnnotation)
                # MapGet(pods[n].annotations, PredictableIPAnnotation)

\* C27: when no Reconcile is in progress, the ConfigMap named by the
\* ipset-name annotation of a live annotated designate Pod holds the Pod's
\* predictable-ip annotation under pod_<ordinal>
C27_AnnotatedIsRecorded ==
    (pc[Reconciler] = "idle" /\ ~rec.active) =>
        \A m \in PodNames :
            (/\ LiveDesignatePod(m)
             /\ MapGet(pods[m].annotations, PredictableIPAnnotation) # ""
             /\ MapGet(pods[m].annotations, IPSetNameAnnotation) # "") =>
                LET pool  == MapGet(pods[m].annotations, IPSetNameAnnotation)
                    index == ExtractPodIndexFromName(PodSpecs[m].name)
                IN  /\ pool \in Pools
                    /\ store[pool].exists
                    /\ index.err = "nil"
                    /\ MapGet(store[pool].data, PodKey(index.n)) =
                         MapGet(pods[m].annotations, PredictableIPAnnotation)

\* ------------------------------------------------------------------------
\* C29: the steps of a Reconcile that fetched a designate Pod with deletion
\* requested write no Pod, and no ConfigMap but the one named by the Pod's
\* ipset-name annotation
C29_DeletionWritesPoolOnly ==
    [][(/\ SawDesignatePod
        /\ rec.seen.deleting
        /\ (pc' # pc \/ rec' # rec \/ loc' # loc)) =>
            /\ pods' = pods
            /\ \A name \in Pools :
                name # MapGet(rec.seen.annotations, IPSetNameAnnotation)
                    => store'[name] = store[name]]_vars

\* the Reconcile of an annotated Pod with deletion requested returned after
\* ReleaseIP wrote the ConfigMap, and the Pod is as it was fetched
C29_Witness ==
    /\ pc[Reconciler] = "reconciled"
    /\ SawDesignatePod /\ rec.seen.deleting
    /\ rec.released /\ loc[Reconciler].wrote
    /\ pods[rec.pod] = rec.seen
    /\ store[MapGet(rec.seen.annotations, IPSetNameAnnotation)].rv > 1

\* ------------------------------------------------------------------------
\* The reconciler with fairness
\* ------------------------------------------------------------------------
\* the Pods of the specification with fairness
LivePods == {"designate-mdns-0"}

\* the reconciler over one Pod, no log kept, so that Reconcile is called
\* again and again
LiveNext == ReconcileStep(LivePods, MaxLiveWrites, 1, FALSE)

\* a step of the worker: the requests of the queue are taken one after the
\* other, and every step of a Reconcile returns
WorkerStep == LiveNext /\ (pc' # pc \/ rec' # rec \/ loc' # loc)

\* the worker keeps running, a request for the Pod is always delivered
\* again, and a Pod whose deletion was requested is removed (it has no
\* finalizer)
LiveSpec ==
    /\ Init
    /\ [][LiveNext]_vars
    /\ WF_vars(WorkerStep)
    /\ WF_vars(RemovePod(LivePods))

\* the Pod is a designate Pod with deletion requested, annotated with ip on
\* the pool of the reconciler
DeletedHolding(m, ip) ==
    /\ pods[m].exists
    /\ pods[m].deleting
    /\ isDesignatePod(PodSpecs[m])
    /\ MapGet(pods[m].annotations, PredictableIPAnnotation) = ip
    /\ MapGet(pods[m].annotations, IPSetNameAnnotation) = IPSetName

\* C28: when an annotated designate Pod is deleted, the entry of its
\* address is eventually removed from the ConfigMap of its pool
C28_DeletedEventuallyReleased ==
    \A m \in LivePods, ip \in ReleaseArgs :
        DeletedHolding(m, ip) ~> (ip \notin Values(store[IPSetName].data))
====
